---- MODULE Spec2Model ----
(***************************************************************************)
(* HybridChromoMap (src/hybridchromomap.py): the three TSV parsers, the    *)
(* colour resolver, validation, the auto palette, the renderer's geometry, *)
(* layout and scale bar, and the run of main.                              *)
(*                                                                         *)
(* Text is a sequence of one-character strings, so that strip, split,      *)
(* upper and int() are computed character by character as Python does.     *)
(***************************************************************************)
EXTENDS Integers, Sequences, FiniteSets, TLC

VARIABLES
    \* parse_color called on its own
    colorSrc,   \* how the colour string under test was built (form and channels)
    colorIn,    \* the text handed to parse_color
    colorOut,   \* parse_color's outcome, or Pending before the call
    \* _draw_scale_bar called on its own
    sbMaxBp,    \* the renderer's max_bp when the scale bar is drawn
    sbOut,      \* what _draw_scale_bar drew: unit, tick interval, tick marks
    \* the renderer's drawing loop on a loaded karyotype
    gKaryo,     \* the karyotype handed to ChromoMapRenderer
    gOrigins,   \* the origins dict handed to ChromoMapRenderer
    gPatches,   \* [st |-> "drawn", patches |-> the patches render added, in order], or Pending
    \* generate_origin_colors called on its own
    palKaryo,   \* the karyotype whose segments name the origins
    palOut,     \* the dict generate_origin_colors returned, or Pending
    \* one parser called on its own
    pParser,    \* "karyotype", "segments" or "origins"
    pFile,      \* the lines of the file
    pKaryo,     \* the karyotype parse_segments is given
    pResult,    \* the parser's outcome, or Pending
    \* a run of main
    pc,         \* the step main is at
    karFile,    \* the lines of the karyotype file
    segFile,    \* the lines of the segments file
    colors,     \* the lines of the origins file, or NoFile when none is given
    karyo,      \* main's karyo
    origin_dict,\* main's origin_dict
    errors,     \* the list validate_data returned
    stderr,     \* what was echoed to the error stream
    steps,      \* the steps performed so far, in order
    figure,     \* "none", "open" or "closed": the matplotlib figure
    outFile,    \* "absent" or "written": the output file
    exitStatus, \* the process exit status, or Running
    \* the renderer's layout of a karyotype file
    layFile,    \* the lines of the karyotype file
    layOut      \* [st |-> "drawn", ...]: what render laid out, or Pending

colorVars == <<colorSrc, colorIn, colorOut>>

scaleVars == <<sbMaxBp, sbOut>>

geomVars == <<gKaryo, gOrigins, gPatches>>

paletteVars == <<palKaryo, palOut>>

parserVars == <<pParser, pFile, pKaryo, pResult>>

mainVars == <<pc, karFile, segFile, colors, karyo, origin_dict, errors, stderr, steps, figure,
              outFile, exitStatus>>

layoutVars == <<layFile, layOut>>

vars == <<colorVars, scaleVars, geomVars, paletteVars, parserVars, mainVars, layoutVars>>

Pending == [st |-> "pending"]

NoFile == [st |-> "none"]

Running == -1

\* The parts of the program a specification leaves alone stay as constructed.
ScaleIdle == sbMaxBp = 0 /\ sbOut = Pending

GeomIdle == gKaryo = <<>> /\ gOrigins = <<>> /\ gPatches = Pending

PaletteIdle == palKaryo = <<>> /\ palOut = Pending

ParserIdle == pParser = "none" /\ pFile = <<>> /\ pKaryo = <<>> /\ pResult = Pending

LayoutIdle == layFile = <<>> /\ layOut = Pending

MainIdle ==
    /\ pc = "idle" /\ karFile = <<>> /\ segFile = <<>> /\ colors = NoFile /\ karyo = <<>>
    /\ origin_dict = <<>> /\ errors = <<>> /\ stderr = <<>> /\ steps = <<>>
    /\ figure = "none" /\ outFile = "absent" /\ exitStatus = Running

\* ------------------------------------------------------------------ text

\* Characters str.strip() and int() treat as white space.
Whitespace == {" ", "\t", "\n", "\r"}

LowerLetters == <<"a","b","c","d","e","f","g","h","i","j","k","l","m",
                  "n","o","p","q","r","s","t","u","v","w","x","y","z">>

UpperLetters == <<"A","B","C","D","E","F","G","H","I","J","K","L","M",
                  "N","O","P","Q","R","S","T","U","V","W","X","Y","Z">>

DecDigits == <<"0","1","2","3","4","5","6","7","8","9">>

HexUpper == <<"0","1","2","3","4","5","6","7","8","9","A","B","C","D","E","F">>

HexLower == <<"0","1","2","3","4","5","6","7","8","9","a","b","c","d","e","f">>

IndexIn(seq, c) == CHOOSE i \in 1..Len(seq) : seq[i] = c

Occurs(seq, c) == \E i \in 1..Len(seq) : seq[i] = c

\* str.upper() on one character.
UpperChar(c) == IF Occurs(LowerLetters, c) THEN UpperLetters[IndexIn(LowerLetters, c)] ELSE c

ToUpperKeepsCase(s) == s

\* str.upper()
ToUpper(s) == [i \in 1..Len(s) |-> UpperChar(s[i])]

RECURSIVE LStrip(_, _)
LStrip(s, chars) ==
    IF s # <<>> /\ Head(s) \in chars THEN LStrip(Tail(s), chars) ELSE s

RECURSIVE RStrip(_, _)
RStrip(s, chars) ==
    IF s # <<>> /\ s[Len(s)] \in chars THEN RStrip(SubSeq(s, 1, Len(s) - 1), chars) ELSE s

\* str.strip(chars); str.strip() is StripChars(s, Whitespace).
StripChars(s, chars) == RStrip(LStrip(s, chars), chars)

\* str.replace(c, '')
RECURSIVE RemoveChar(_, _)
RemoveChar(s, c) ==
    IF s = <<>> THEN <<>>
    ELSE IF Head(s) = c THEN RemoveChar(Tail(s), c)
    ELSE <<Head(s)>> \o RemoveChar(Tail(s), c)

\* str.split(sep): always at least one part; an empty text gives one empty part.
RECURSIVE SplitAcc(_, _, _)
SplitAcc(s, sep, cur) ==
    IF s = <<>> THEN <<cur>>
    ELSE IF Head(s) = sep THEN <<cur>> \o SplitAcc(Tail(s), sep, <<>>)
    ELSE SplitAcc(Tail(s), sep, Append(cur, Head(s)))

Split(s, sep) == SplitAcc(s, sep, <<>>)

\* The value of digit character c in the given base, or -1.
DigitValue(c, base) ==
    LET v == IF Occurs(HexUpper, c) THEN IndexIn(HexUpper, c) - 1
             ELSE IF Occurs(HexLower, c) THEN IndexIn(HexLower, c) - 1
             ELSE -1
    IN IF v >= 0 /\ v < base THEN v ELSE -1

RECURSIVE DigitsValue(_, _, _)
DigitsValue(s, base, acc) ==
    IF s = <<>> THEN acc
    ELSE IF Head(s) = "_" THEN DigitsValue(Tail(s), base, acc)
    ELSE DigitsValue(Tail(s), base, acc * base + DigitValue(Head(s), base))

\* The digits of an integer literal: no underscore first, last or doubled, every
\* other character a digit of the base.  [ok |-> FALSE] is ValueError.
ParseDigits(w, base) ==
    IF /\ w # <<>>
       /\ w[1] # "_"
       /\ w[Len(w)] # "_"
       /\ \A i \in 1..Len(w) : w[i] = "_" \/ DigitValue(w[i], base) >= 0
       /\ \A i \in 1..(Len(w) - 1) : ~(w[i] = "_" /\ w[i + 1] = "_")
    THEN [ok |-> TRUE, v |-> DigitsValue(w, base, 0)]
    ELSE [ok |-> FALSE, v |-> 0]

\* One underscore may follow the 0x prefix.
DropUnderscore(v) == IF v # <<>> /\ v[1] = "_" THEN Tail(v) ELSE v

\* For base 16 an optional 0x/0X prefix, then the digits.
ParseUnsigned(u, base) ==
    IF base = 16 /\ Len(u) >= 2 /\ u[1] = "0" /\ u[2] \in {"x", "X"}
    THEN ParseDigits(DropUnderscore(SubSeq(u, 3, Len(u))), base)
    ELSE ParseDigits(u, base)

ApplySign(negative, r) == [ok |-> r.ok, v |-> IF negative THEN 0 - r.v ELSE r.v]

\* One optional sign, then the unsigned literal.
ParseSigned(t, base) ==
    ApplySign(t # <<>> /\ t[1] = "-",
              ParseUnsigned(IF t # <<>> /\ t[1] \in {"+", "-"} THEN Tail(t) ELSE t, base))

\* Python's int(s, base) for base 10 and 16: surrounding white space, one sign,
\* for base 16 an optional 0x/0X prefix (and one underscore after it), then digits
\* with single underscores between them.
ParseInt(s, base) == ParseSigned(StripChars(s, Whitespace), base)

\* str(n) for n >= 0
RECURSIVE ToDec(_)
ToDec(n) == IF n < 10 THEN <<DecDigits[n + 1]>> ELSE ToDec(n \div 10) \o <<DecDigits[(n % 10) + 1]>>

\* f"{n:02X}" for 0 <= n <= 255
Hex2(n) == <<HexUpper[(n \div 16) + 1], HexUpper[(n % 16) + 1]>>

\* ------------------------------------------------------- colour resolver

\* matplotlib's name table, as far as the model draws names from it: each name with
\* the channels int(v * 255) gives for mcolors.to_rgb's floats.
NamedColors ==
    { [name |-> <<"r","e","d">>, rgb |-> <<255, 0, 0>>],
      [name |-> <<"b","l","u","e">>, rgb |-> <<0, 0, 255>>],
      [name |-> <<"g","r","a","y">>, rgb |-> <<128, 128, 128>>],
      [name |-> <<"w","h","i","t","e">>, rgb |-> <<255, 255, 255>>] }

\* mcolors.to_rgb followed by int(v * 255): a named colour's channels, or failure.
ToRgb(s) ==
    IF \E e \in NamedColors : e.name = s
    THEN [ok |-> TRUE, rgb |-> (CHOOSE e \in NamedColors : e.name = s).rgb]
    ELSE [ok |-> FALSE, rgb |-> <<0, 0, 0>>]

ColorOk(text) == [st |-> "ok", v |-> text]

ColorError == [st |-> "error", v |-> <<>>]

\* Format 1 of parse_color: '#' and six or three characters that int(_, 16) accepts.
ParseHexColor(cs) ==
    IF Len(cs) \in {4, 7} /\ ParseInt(Tail(cs), 16).ok
    THEN IF Len(cs) = 7 THEN ColorOk(ToUpper(cs))
         ELSE ColorOk(ToUpper(<<"#", cs[2], cs[2], cs[3], cs[3], cs[4], cs[4]>>))
    ELSE ColorError

\* r, g, b = [int(x) for x in parts]; if all(0 <= v <= 255 ...): return the hex form
RgbFromChannels(ch) ==
    IF /\ \A i \in 1..3 : ch[i].ok
       /\ \A i \in 1..3 : ch[i].v >= 0 /\ ch[i].v <= 255
    THEN ColorOk(<<"#">> \o Hex2(ch[1].v) \o Hex2(ch[2].v) \o Hex2(ch[3].v))
    ELSE ColorError

\* if len(parts) == 3
RgbFromParts(parts) ==
    IF Len(parts) = 3 THEN RgbFromChannels([i \in 1..3 |-> ParseInt(parts[i], 10)])
    ELSE ColorError

\* if ',' in rgb_str: parts = rgb_str.split(',')
RgbFromText(rgb_str) ==
    IF Occurs(rgb_str, ",") THEN RgbFromParts(Split(rgb_str, ",")) ELSE ColorError

\* Format 2 of parse_color: (R, G, B) or R,G,B with 0 <= R, G, B <= 255.
ParseRgbColor(cs) == RgbFromText(RemoveChar(StripChars(cs, {"(", ")"}), " "))

NamedFromRgb(r) ==
    IF r.ok THEN ColorOk(<<"#">> \o Hex2(r.rgb[1]) \o Hex2(r.rgb[2]) \o Hex2(r.rgb[3]))
    ELSE ColorError

\* Format 3 of parse_color: a matplotlib colour name.
ParseNamedColor(cs) == NamedFromRgb(ToRgb(cs))

\* The first of the three formats that succeeds returns.
FirstOk(f1, f2, f3) ==
    IF f1.st = "ok" THEN f1
    ELSE IF f2.st = "ok" THEN f2
    ELSE f3

ColorFromStripped(cs) ==
    FirstOk(IF cs # <<>> /\ cs[1] = "#" THEN ParseHexColor(cs) ELSE ColorError,
            ParseRgbColor(cs),
            ParseNamedColor(cs))

\* parse_color: the three formats in order on the stripped text.
parse_color(color_str) == ColorFromStripped(StripChars(color_str, Whitespace))

\* ------------------------------------------------- colour resolver inputs

\* Channel values the colour strings under test are built from.
ChannelValues == {0, 9, 10, 16, 170, 187, 204, 255}

\* Digit values the 3-digit hex strings under test are built from.
ShortHexValues == {0, 9, 10, 11, 12, 15}

HexPair(n, digits) == <<digits[(n \div 16) + 1], digits[(n % 16) + 1]>>

\* '#RRGGBB' written in upper case, lower case, or lower case for the red channel only.
Hex6Text(r, g, b, case) ==
    <<"#">> \o HexPair(r, IF case = "upper" THEN HexUpper ELSE HexLower)
            \o HexPair(g, IF case = "lower" THEN HexLower ELSE HexUpper)
            \o HexPair(b, IF case = "lower" THEN HexLower ELSE HexUpper)

Hex3Text(d, case) ==
    LET digits == IF case = "upper" THEN HexUpper ELSE HexLower
    IN <<"#", digits[d[1] + 1], digits[d[2] + 1], digits[d[3] + 1]>>

TripletText(r, g, b, sep) == ToDec(r) \o sep \o ToDec(g) \o sep \o ToDec(b)

\* Free-form colour strings: malformed, out of range, named, and strings that
\* int(_, 16) accepts although they are not six hex digits.
RawColorTexts ==
    { <<>>,
      <<"r","e","d">>, <<"b","l","u","e">>, <<"g","r","a","y">>, <<"w","h","i","t","e">>,
      <<" ","r","e","d"," ">>,
      <<"n","o","p","e">>,
      <<"#">>, <<"#","1","2">>, <<"#","g","g","g">>, <<"#","1","2","3","4","5","g">>,
      <<"#","1","2","3","4","5">>, <<"#","1","2","3","4","5","6","7">>,
      <<"#","0","x","1","2","3","4">>, <<"#","0","X","a","b","c","d">>,
      <<"#","+","1","2","3","4","5">>, <<"#","-","1","2","3","4","5">>,
      <<"#","1","_","2","3","4","5">>, <<"#","1","_","_","2","3","4">>,
      <<"#","_","1","2","3","4","5">>, <<"#","1","2","3","4","5","_">>,
      <<"#","0","x","_","1","2","3">>, <<"#"," ","1","2","3","4","5">>,
      <<"#","+","1","2">>, <<"#","0","x","1">>, <<"#","0","x","g">>, <<"#","1","_","2">>,
      <<"3","0","0",",","0",",","0">>, <<"-","1",",","0",",","0">>,
      <<"1",",","2">>, <<"1",",","2",",","3",",","4">>, <<"1",",","x",",","3">>,
      <<"(","1",",","2",",","3">>, <<"(","(","1",",","2",",","3",")",")">>,
      <<"+","1",",","0","2",",","1","_","0">>, <<"1",",",",","3">>,
      <<"1","\t",",","2",",","3">> }

ColorSources ==
    [form : {"hex6"}, case : {"upper", "lower", "mixed"},
     r : ChannelValues, g : ChannelValues, b : ChannelValues]
    \cup [form : {"paren", "parenSpaced", "bare"},
          r : ChannelValues, g : ChannelValues, b : ChannelValues]
    \cup [form : {"hex3"}, case : {"upper", "lower"},
          d : ShortHexValues \X ShortHexValues \X ShortHexValues]
    \cup [form : {"raw"}, text : RawColorTexts]

ColorText(src) ==
    CASE src.form = "hex6" -> Hex6Text(src.r, src.g, src.b, src.case)
      [] src.form = "paren" -> <<"(">> \o TripletText(src.r, src.g, src.b, <<",">>) \o <<")">>
      [] src.form = "parenSpaced" ->
            <<"(">> \o TripletText(src.r, src.g, src.b, <<",", " ">>) \o <<")">>
      [] src.form = "bare" -> TripletText(src.r, src.g, src.b, <<",">>)
      [] src.form = "hex3" -> Hex3Text(src.d, src.case)
      [] src.form = "raw" -> src.text

NoSource == [form |-> "none"]

ColorIdle == colorSrc = NoSource /\ colorIn = <<>> /\ colorOut = Pending

\* The call parse_color(colorIn).
ParseColor ==
    /\ colorSrc # NoSource
    /\ colorOut = Pending
    /\ colorOut' = parse_color(colorIn)
    /\ UNCHANGED <<colorSrc, colorIn>>
    /\ UNCHANGED <<scaleVars, geomVars, paletteVars, parserVars, mainVars, layoutVars>>

InitColor ==
    /\ colorSrc \in ColorSources
    /\ colorIn = ColorText(colorSrc)
    /\ colorOut = Pending
    /\ ScaleIdle /\ GeomIdle /\ PaletteIdle /\ ParserIdle /\ MainIdle /\ LayoutIdle

NextColor == ParseColor

SpecColor == InitColor /\ [][NextColor]_vars

IsCanonical(text) ==
    /\ Len(text) = 7
    /\ text[1] = "#"
    /\ \A i \in 2..7 : Occurs(HexUpper, text[i])

\* C5: whatever the input, parse_color either fails or returns '#' followed by
\* exactly six characters of 0-9, A-F.
C5_CanonicalOrError ==
    colorOut # Pending => (colorOut.st = "error" \/ IsCanonical(colorOut.v))

Canon(r, g, b) == <<"#">> \o HexPair(r, HexUpper) \o HexPair(g, HexUpper) \o HexPair(b, HexUpper)

Doubled(d) == <<"#", HexUpper[d[1] + 1], HexUpper[d[1] + 1], HexUpper[d[2] + 1],
                HexUpper[d[2] + 1], HexUpper[d[3] + 1], HexUpper[d[3] + 1]>>

\* C6: for channels r, g, b the forms '#RRGGBB' (any letter case), '(r,g,b)' and
\* 'r,g,b' all give the canonical upper-case string of r, g, b, and '#RGB' gives the
\* string with each digit doubled.
C6_FormsAgree ==
    colorOut # Pending =>
        /\ colorSrc.form \in {"hex6", "paren", "parenSpaced", "bare"} =>
              colorOut = ColorOk(Canon(colorSrc.r, colorSrc.g, colorSrc.b))
        /\ colorSrc.form = "hex3" => colorOut = ColorOk(Doubled(colorSrc.d))

\* '#abc' has been parsed and gave '#AABBCC'.
C6_Witness ==
    /\ colorSrc = [form |-> "hex3", case |-> "lower", d |-> <<10, 11, 12>>]
    /\ colorOut = ColorOk(<<"#","A","A","B","B","C","C">>)

\* ------------------------------------------------------ renderer defaults

\* ChromoMapRenderer.__init__'s defaults, in hundredths of an inch.
FigWidth == 1200

ChromHeight == 40

SameChromSpacing == 15

DiffChromSpacing == 50

LeftMargin == 150

RightMargin == 250

TopMargin == 50

BottomMargin == 100

\* self.plot_width = fig_width - left_margin - right_margin
PlotWidth == FigWidth - LeftMargin - RightMargin

\* -------------------------------------------------------------- scale bar

\* nice_intervals, each times 100.
NiceIntervals == <<10, 20, 25, 50, 100, 200, 250, 500, 1000, 2000, 2500, 5000,
                   10000, 20000, 25000, 50000, 100000>>

\* scale_unit: Mb from 1,000,000 bp on, else kb.
ScaleUnit(max_bp) == IF max_bp >= 1000000 THEN 1000000 ELSE 1000

\* The arithmetic below is exact for max_bp a multiple of 1000: it works on
\* max_bp / 1000 and scale_unit / 1000 to stay within 32 bits.
Kilo(n) == n \div 1000

\* num_ticks = max_val / interval compared with 4 and 8 (interval is iv / 100).
NumTicksAtLeast4(max_bp, iv) == 4 * Kilo(ScaleUnit(max_bp)) * iv <= Kilo(max_bp) * 100

NumTicksAtMost8(max_bp, iv) == Kilo(max_bp) * 100 <= 8 * Kilo(ScaleUnit(max_bp)) * iv

\* The for loop over nice_intervals from index i on, with tick_interval = cur so far.
RECURSIVE PickInterval(_, _, _)
PickInterval(max_bp, i, cur) ==
    IF i > Len(NiceIntervals) THEN cur
    ELSE IF NumTicksAtLeast4(max_bp, NiceIntervals[i]) /\ NumTicksAtMost8(max_bp, NiceIntervals[i])
         THEN NiceIntervals[i]
    ELSE IF ~NumTicksAtLeast4(max_bp, NiceIntervals[i]) THEN cur
    ELSE PickInterval(max_bp, i + 1, NiceIntervals[i])

TickInterval(max_bp) == PickInterval(max_bp, 1, NiceIntervals[1])

\* while tick_val <= max_val + 0.001, for tick_val = k * interval.
TickInLoop(max_bp, iv, k) ==
    10 * k * iv * Kilo(ScaleUnit(max_bp)) <= 1000 * Kilo(max_bp) + Kilo(ScaleUnit(max_bp))

\* x <= x_end + 0.01, for x = left_margin + tick_val * scale_unit * bp_to_inch and
\* x_end = left_margin + plot_width: (tick_val * scale_unit - max_bp) * plot_width / max_bp
\* <= 0.01.
TickOnAxis(max_bp, iv, k) ==
    LET over == k * iv * Kilo(ScaleUnit(max_bp)) - 100 * Kilo(max_bp)
    IN over <= 0 \/ over * PlotWidth <= 100 * Kilo(max_bp)

\* The tick marks the while loop draws from its k-th iteration on.
RECURSIVE CountTicks(_, _, _)
CountTicks(max_bp, iv, k) ==
    IF ~TickInLoop(max_bp, iv, k) THEN 0
    ELSE (IF TickOnAxis(max_bp, iv, k) THEN 1 ELSE 0) + CountTicks(max_bp, iv, k + 1)

\* _draw_scale_bar
draw_scale_bar(max_bp) ==
    [st |-> "drawn",
     unit |-> IF ScaleUnit(max_bp) = 1000000 THEN "Mb" ELSE "kb",
     interval |-> TickInterval(max_bp),
     ticks |-> CountTicks(max_bp, TickInterval(max_bp), 0)]

\* Maximum copy lengths the scale bar is drawn for: two significant digits times
\* 1 kb .. 1 Mb, and 10 Mb steps up to 500 Mb.
ScaleLengths ==
    { m * 1000 * (10 ^ e) : m \in 10..99, e \in 0..3 }
    \cup { m * 10000000 : m \in 10..50 }

DrawScaleBar ==
    /\ sbMaxBp > 0
    /\ sbOut = Pending
    /\ sbOut' = draw_scale_bar(sbMaxBp)
    /\ UNCHANGED sbMaxBp
    /\ UNCHANGED <<colorVars, geomVars, paletteVars, parserVars, mainVars, layoutVars>>

InitScale ==
    /\ sbMaxBp \in ScaleLengths
    /\ sbOut = Pending
    /\ ColorIdle /\ GeomIdle /\ PaletteIdle /\ ParserIdle /\ MainIdle /\ LayoutIdle

NextScale == DrawScaleBar

SpecScale == InitScale /\ [][NextScale]_vars

\* C10: for a maximum copy length between 10,000 bp and 500,000,000 bp the scale
\* bar has between 4 and 8 tick marks.
C10_TickCount ==
    (sbOut # Pending /\ sbMaxBp >= 10000 /\ sbMaxBp <= 500000000) =>
        (sbOut.ticks >= 4 /\ sbOut.ticks <= 8)

\* ------------------------------------------------------------- data model

\* Segment, ChromosomeCopy, Chromosome and Karyotype are records; a dict is a
\* sequence of its values in insertion order, as Python iterates it.
Segment(chrom, copy, start, end, origin) ==
    [chrom |-> chrom, copy |-> copy, start |-> start, end |-> end, origin |-> origin]

\* Segment.length
SegLength(seg) == seg.end - seg.start

ChromosomeCopy(chrom, copy, length) ==
    [chrom |-> chrom, copy |-> copy, length |-> length, segments |-> <<>>]

EmptyKaryotype == [chromosomes |-> <<>>, chrom_order |-> <<>>]

\* Position of key in a dict's sequence, 0 when absent.
ChromIndex(k, name) ==
    IF \E i \in 1..Len(k.chromosomes) : k.chromosomes[i].name = name
    THEN CHOOSE i \in 1..Len(k.chromosomes) : k.chromosomes[i].name = name
    ELSE 0

CopyIndex(chrom, copy_num) ==
    IF \E j \in 1..Len(chrom.copies) : chrom.copies[j].copy = copy_num
    THEN CHOOSE j \in 1..Len(chrom.copies) : chrom.copies[j].copy = copy_num
    ELSE 0

\* Chromosome.add_copy: self.copies[copy_num] = ChromosomeCopy(...); an existing key
\* keeps its place and gets a fresh copy.
add_copy(chrom, copy_num, length) ==
    IF CopyIndex(chrom, copy_num) = 0
    THEN [chrom EXCEPT !.copies = Append(@, ChromosomeCopy(chrom.name, copy_num, length))]
    ELSE [chrom EXCEPT !.copies[CopyIndex(chrom, copy_num)] =
                           ChromosomeCopy(chrom.name, copy_num, length)]

\* Karyotype.add_chromosome_copy
add_chromosome_copy(k, chrom_name, copy_num, length) ==
    LET k1 == IF ChromIndex(k, chrom_name) = 0
              THEN [chromosomes |-> Append(k.chromosomes, [name |-> chrom_name, copies |-> <<>>]),
                    chrom_order |-> Append(k.chrom_order, chrom_name)]
              ELSE k
    IN [k1 EXCEPT !.chromosomes[ChromIndex(k1, chrom_name)] = add_copy(@, copy_num, length)]

\* Karyotype.get_copy is not None
HasCopy(k, chrom_name, copy_num) ==
    /\ ChromIndex(k, chrom_name) # 0
    /\ CopyIndex(k.chromosomes[ChromIndex(k, chrom_name)], copy_num) # 0

\* ChromosomeCopy.add_segment on the copy Karyotype.get_copy returns.
add_segment(k, seg) ==
    LET i == ChromIndex(k, seg.chrom)
        j == CopyIndex(k.chromosomes[i], seg.copy)
    IN [k EXCEPT !.chromosomes[i].copies[j].segments = Append(@, seg)]

Max(a, b) == IF a >= b THEN a ELSE b

RECURSIVE MaxOver(_)
MaxOver(nums) == IF Len(nums) = 1 THEN nums[1] ELSE Max(nums[1], MaxOver(Tail(nums)))

\* Chromosome.max_length
ChromMaxLength(chrom) ==
    IF chrom.copies = <<>> THEN 0
    ELSE MaxOver([j \in 1..Len(chrom.copies) |-> chrom.copies[j].length])

\* Karyotype.max_length
KaryotypeMaxLength(k) ==
    IF k.chromosomes = <<>> THEN 0
    ELSE MaxOver([i \in 1..Len(k.chromosomes) |-> ChromMaxLength(k.chromosomes[i])])

\* Every segment of the karyotype, in the order the nested loops over
\* chromosomes.values(), copies.values() and segments visit them.
RECURSIVE Flatten(_)
Flatten(seqs) == IF seqs = <<>> THEN <<>> ELSE Head(seqs) \o Flatten(Tail(seqs))

AllCopies(k) == Flatten([i \in 1..Len(k.chromosomes) |-> k.chromosomes[i].copies])

AllSegments(k) == Flatten([j \in 1..Len(AllCopies(k)) |-> AllCopies(k)[j].segments])

\* ---------------------------------------------------------------- sorting

\* Characters in ascending code point order.
CodeOrder ==
    <<"\t", "\n", "\r", " ", "#", "(", ")", "+", ",", "-">> \o DecDigits \o UpperLetters
    \o <<"_">> \o LowerLetters

Code(c) == IndexIn(CodeOrder, c)

\* a < b for Python strings: the first differing character decides, a proper prefix
\* is smaller.
RECURSIVE TextLess(_, _)
TextLess(a, b) ==
    IF b = <<>> THEN FALSE
    ELSE IF a = <<>> THEN TRUE
    ELSE IF Head(a) # Head(b) THEN Code(Head(a)) < Code(Head(b))
    ELSE TextLess(Tail(a), Tail(b))

\* One step of a stable insertion sort: item goes after every element that is not
\* greater than it.
RECURSIVE InsertText(_, _)
InsertText(sorted, t) ==
    IF sorted = <<>> THEN <<t>>
    ELSE IF TextLess(t, Head(sorted)) THEN <<t>> \o sorted
    ELSE <<Head(sorted)>> \o InsertText(Tail(sorted), t)

\* sorted(texts)
RECURSIVE SortedTexts(_)
SortedTexts(texts) ==
    IF texts = <<>> THEN <<>>
    ELSE InsertText(SortedTexts(SubSeq(texts, 1, Len(texts) - 1)), texts[Len(texts)])

\* Stable sort of records by their integer field key, ascending.
RECURSIVE InsertByKey(_, _)
InsertByKey(sorted, item) ==
    IF sorted = <<>> THEN <<item>>
    ELSE IF item.key < Head(sorted).key THEN <<item>> \o sorted
    ELSE <<Head(sorted)>> \o InsertByKey(Tail(sorted), item)

RECURSIVE SortByKey(_)
SortByKey(items) ==
    IF items = <<>> THEN <<>>
    ELSE InsertByKey(SortByKey(SubSeq(items, 1, Len(items) - 1)), items[Len(items)])

\* ChromosomeCopy.sort_segments: self.segments.sort(key=lambda s: s.start)
sort_segments(segments) ==
    LET keyed == [i \in 1..Len(segments) |-> [key |-> segments[i].start, v |-> segments[i]]]
    IN [i \in 1..Len(segments) |-> SortByKey(keyed)[i].v]

\* get_ordered_chromosomes sorting by length without reverse=True.
get_ordered_chromosomes_shortest_first(k, sort_by) ==
    IF sort_by = "name" THEN SortedTexts(k.chrom_order)
    ELSE IF sort_by = "length"
         THEN LET keyed == [i \in 1..Len(k.chrom_order) |->
                               [key |-> ChromMaxLength(k.chromosomes[ChromIndex(k, k.chrom_order[i])]),
                                v |-> k.chrom_order[i]]]
              IN [i \in 1..Len(k.chrom_order) |-> SortByKey(keyed)[i].v]
    ELSE k.chrom_order

\* Karyotype.get_ordered_chromosomes
get_ordered_chromosomes(k, sort_by) ==
    IF sort_by = "name" THEN SortedTexts(k.chrom_order)
    ELSE IF sort_by = "length"
         THEN LET keyed == [i \in 1..Len(k.chrom_order) |->
                               [key |-> 0 - ChromMaxLength(k.chromosomes[ChromIndex(k, k.chrom_order[i])]),
                                v |-> k.chrom_order[i]]]
              IN [i \in 1..Len(k.chrom_order) |-> SortByKey(keyed)[i].v]
    ELSE k.chrom_order

\* ---------------------------------------------------------------- origins

\* The origins dict: Origin records (name, color, label) in insertion order.
Origin(name, color, label) == [name |-> name, color |-> color, label |-> label]

OriginIndex(origins, name) ==
    IF \E i \in 1..Len(origins) : origins[i].name = name
    THEN CHOOSE i \in 1..Len(origins) : origins[i].name = name
    ELSE 0

\* name in origins
HasOrigin(origins, name) == OriginIndex(origins, name) # 0

\* origins[name] = origin
SetOrigin(origins, origin) ==
    IF HasOrigin(origins, origin.name)
    THEN [origins EXCEPT ![OriginIndex(origins, origin.name)] = origin]
    ELSE Append(origins, origin)

UnknownName == <<"u","n","k","n","o","w","n">>

UnknownOrigin ==
    Origin(UnknownName, <<"#","8","0","8","0","8","0">>, <<"U","n","k","n","o","w","n">>)

\* ----------------------------------------------------------- auto palette

\* color_palette
color_palette ==
    << <<"#","E","6","4","B","3","5">>,
       <<"#","4","D","B","B","D","5">>,
       <<"#","0","0","A","0","8","7">>,
       <<"#","3","C","5","4","8","8">>,
       <<"#","F","3","9","B","7","F">>,
       <<"#","8","4","9","1","B","4">>,
       <<"#","9","1","D","1","C","2">>,
       <<"#","D","C","0","0","0","0">>,
       <<"#","7","E","6","1","4","8">>,
       <<"#","0","0","0","0","0","0">> >>

\* str.replace(old, new) for single characters
ReplaceChar(s, old, new) == [i \in 1..Len(s) |-> IF s[i] = old THEN new ELSE s[i]]

\* The distinct origins of the segments, 'unknown' discarded.  A Python set has no
\* defined iteration order; the order of first appearance stands for it here, and
\* sorted() below is what makes the result independent of it.
RECURSIVE DistinctTexts(_)
DistinctTexts(texts) ==
    IF texts = <<>> THEN <<>>
    ELSE LET before == DistinctTexts(SubSeq(texts, 1, Len(texts) - 1))
         IN IF Occurs(before, texts[Len(texts)]) THEN before
            ELSE Append(before, texts[Len(texts)])

UniqueOrigins(k) ==
    LET all == DistinctTexts([i \in 1..Len(AllSegments(k)) |-> AllSegments(k)[i].origin])
    IN SelectSeq(all, LAMBDA name : name # UnknownName)

SortedOriginsUnsorted(k) == UniqueOrigins(k)

\* sorted_origins = sorted(unique_origins)
SortedOrigins(k) == SortedTexts(UniqueOrigins(k))

\* generate_origin_colors without its last statement, origins['unknown'] = ...
generate_origin_colors_without_unknown(k) ==
    [i \in 1..Len(SortedOrigins(k)) |->
        Origin(SortedOrigins(k)[i],
               color_palette[((i - 1) % Len(color_palette)) + 1],
               ReplaceChar(SortedOrigins(k)[i], "_", " "))]

\* generate_origin_colors
generate_origin_colors(k) ==
    LET sorted_origins == SortedOrigins(k)
    IN [i \in 1..Len(sorted_origins) |->
           Origin(sorted_origins[i],
                  color_palette[((i - 1) % Len(color_palette)) + 1],
                  ReplaceChar(sorted_origins[i], "_", " "))]
       \o <<UnknownOrigin>>


\* --------------------------------------------------------------- renderer

\* facecolor of the chromosome outline and of the cover rectangle
OutlineGrey == <<"#","E","0","E","0","E","0">>

\* bp_to_inch taking fig_width for plot_width.
ScaleNumOfFigWidth(max_bp) == IF max_bp > 0 THEN FigWidth ELSE 100

\* self.bp_to_inch = plot_width / max_bp if max_bp > 0 else 1, as a fraction of
\* hundredths of an inch per bp.
ScaleNum(max_bp) == IF max_bp > 0 THEN PlotWidth ELSE 100

ScaleDen(max_bp) == IF max_bp > 0 THEN max_bp ELSE 1

\* Horizontal coordinates are integers in units of 1 / (200 * ScaleDen) inch, in
\* which bp * bp_to_inch and chrom_height / 2 are both whole numbers.
InchUnits(hundredths, max_bp) == 2 * hundredths * ScaleDen(max_bp)

BpUnits(bp, max_bp) == 2 * bp * ScaleNum(max_bp)

\* rounding = self.chrom_height / 2
Rounding(max_bp) == ChromHeight * ScaleDen(max_bp)

\* A patch added to the axes: x and w horizontal (a wedge has x its centre and w its
\* radius, and is the right half disc), y its bottom in hundredths of an inch.
\* chrom, copy, seg and role record which bar and segment the patch was drawn for.
Patch(kind, x, w, y, face, z, role, copy, si) ==
    [kind |-> kind, x |-> x, w |-> w, y |-> y, face |-> face, zorder |-> z,
     role |-> role, chrom |-> copy.chrom, copy |-> copy.copy, seg |-> si]

\* is_start = (segment.start == 0)
IsStart(seg) == seg.start = 0

\* is_end = (segment.end >= copy.length - 1)
IsEnd(seg, copy) == seg.end >= copy.length - 1

\* self.origins.get(segment.origin, self.origins['unknown']).color
SegmentColor(origins, name) ==
    IF HasOrigin(origins, name) THEN origins[OriginIndex(origins, name)].color
    ELSE origins[OriginIndex(origins, UnknownName)].color

\* The patches render adds for segment number si of a copy whose bar has its bottom
\* at y.
SegmentPatches(seg, si, copy, y, max_bp, origins) ==
    LET seg_x == InchUnits(LeftMargin, max_bp) + BpUnits(seg.start, max_bp)
        seg_width == BpUnits(SegLength(seg), max_bp)
        rounding == Rounding(max_bp)
        color == SegmentColor(origins, seg.origin)
    IN IF IsStart(seg) /\ IsEnd(seg, copy)
       THEN <<Patch("round_box", seg_x, seg_width, y, color, 2, "fill", copy, si)>>
       ELSE IF IsStart(seg)
       THEN <<Patch("round_box", seg_x, seg_width + rounding, y, color, 2, "fill", copy, si),
              Patch("rectangle", seg_x + seg_width, rounding, y, OutlineGrey, 1, "cover", copy, si)>>
       ELSE IF IsEnd(seg, copy)
       THEN <<Patch("rectangle", seg_x, seg_width - rounding, y, color, 2, "fill", copy, si),
              Patch("wedge", seg_x + seg_width - rounding, rounding, y, color, 2, "cap", copy, si)>>
       ELSE <<Patch("rectangle", seg_x, seg_width, y, color, 2, "fill", copy, si)>>

\* The outline capsule, the segments' patches and the label of one copy.
CopyPatches(copy, y, max_bp, origins) ==
    <<Patch("round_box", InchUnits(LeftMargin, max_bp), BpUnits(copy.length, max_bp), y,
            OutlineGrey, 1, "outline", copy, 0)>>
    \o Flatten([si \in 1..Len(copy.segments) |->
                   SegmentPatches(copy.segments[si], si, copy, y, max_bp, origins)])

\* sorted(chrom.copies.keys())
SortedCopyNumbers(chrom) ==
    LET keyed == [j \in 1..Len(chrom.copies) |-> [key |-> chrom.copies[j].copy]]
    IN [j \in 1..Len(chrom.copies) |-> SortByKey(keyed)[j].key]

\* The loop over sorted_copies from its j-th copy on, with current_y as it stands.
RECURSIVE RenderCopies(_, _, _, _, _)
RenderCopies(chrom, j, current_y, max_bp, origins) ==
    IF j > Len(chrom.copies) THEN [patches |-> <<>>, current_y |-> current_y]
    ELSE LET copy == chrom.copies[CopyIndex(chrom, SortedCopyNumbers(chrom)[j])]
             y == current_y - ChromHeight
             rest == RenderCopies(chrom, j + 1,
                                  IF j < Len(chrom.copies) THEN y - SameChromSpacing ELSE y,
                                  max_bp, origins)
         IN [patches |-> CopyPatches(copy, y, max_bp, origins) \o rest.patches,
             current_y |-> rest.current_y]

\* The loop over chrom_names from its i-th name on.
RECURSIVE RenderChromosomes(_, _, _, _, _)
RenderChromosomes(k, chrom_names, i, current_y, origins) ==
    IF i > Len(chrom_names) THEN [patches |-> <<>>, current_y |-> current_y]
    ELSE LET drawn == RenderCopies(k.chromosomes[ChromIndex(k, chrom_names[i])], 1, current_y,
                                   KaryotypeMaxLength(k), origins)
             rest == RenderChromosomes(k, chrom_names, i + 1,
                                       IF i < Len(chrom_names)
                                       THEN drawn.current_y - DiffChromSpacing
                                       ELSE drawn.current_y,
                                       origins)
         IN [patches |-> drawn.patches \o rest.patches, current_y |-> rest.current_y]

\* _calculate_fig_height without the spacing between copies of one chromosome.
RECURSIVE FigHeightFromWithoutCopySpacing(_, _, _, _)
FigHeightFromWithoutCopySpacing(k, chrom_names, i, total_height) ==
    IF i > Len(chrom_names) THEN total_height
    ELSE FigHeightFromWithoutCopySpacing(
             k, chrom_names, i + 1,
             total_height
             + Len(k.chromosomes[ChromIndex(k, chrom_names[i])].copies) * ChromHeight
             + (IF i < Len(chrom_names) THEN DiffChromSpacing ELSE 0))

\* _calculate_fig_height: the loop over chrom_names from its i-th name on.
RECURSIVE FigHeightFrom(_, _, _, _)
FigHeightFrom(k, chrom_names, i, total_height) ==
    IF i > Len(chrom_names) THEN total_height
    ELSE LET num_copies == Len(k.chromosomes[ChromIndex(k, chrom_names[i])].copies)
         IN FigHeightFrom(k, chrom_names, i + 1,
                          total_height + num_copies * ChromHeight
                          + (num_copies - 1) * SameChromSpacing
                          + (IF i < Len(chrom_names) THEN DiffChromSpacing ELSE 0))

\* _calculate_fig_height adding the spacing to the next chromosome after the last
\* chromosome as well.
calculate_fig_height_spacing_after_last(k, sort_by) ==
    FigHeightFrom(k, get_ordered_chromosomes(k, sort_by), 1, TopMargin + BottomMargin)
    + (IF k.chrom_order = <<>> THEN 0 ELSE DiffChromSpacing)

calculate_fig_height(k, sort_by) ==
    FigHeightFrom(k, get_ordered_chromosomes(k, sort_by), 1, TopMargin + BottomMargin)

\* What render puts on the canvas: the figure height and the patches in the order
\* they are added.
RenderPatches(k, origins, sort_by) ==
    RenderChromosomes(k, get_ordered_chromosomes(k, sort_by), 1,
                      calculate_fig_height(k, sort_by) - TopMargin, origins).patches

\* add_segment for each segment in turn.
RECURSIVE AddSegments(_, _)
AddSegments(k, segs) ==
    IF segs = <<>> THEN k ELSE AddSegments(add_segment(k, Head(segs)), Tail(segs))

\* for chrom in chromosomes.values(): for copy in chrom.copies.values():
\* copy.sort_segments()
SortAllSegments(k) ==
    [k EXCEPT !.chromosomes =
        [i \in 1..Len(k.chromosomes) |->
            [k.chromosomes[i] EXCEPT !.copies =
                [j \in 1..Len(k.chromosomes[i].copies) |->
                    [k.chromosomes[i].copies[j] EXCEPT !.segments = sort_segments(@)]]]]]


\* ---------------------------------------------------------------- parsers

\* ParseError stating the line number counted from 0.
ParseErrorZeroBased(parser, kind, line_num, chrom, copy, partial) ==
    [st |-> "error", parser |-> parser, kind |-> kind, line |-> line_num - 1,
     chrom |-> chrom, copy |-> copy, partial |-> partial]

\* A file is the sequence of its lines, a line a text.  ValueError is a record that
\* keeps what the message states: the file, the 1-based line number, the kind of
\* error, and for 'not found' the chromosome and copy.  partial is what had been
\* registered when the error was raised.
ParseError(parser, kind, line_num, chrom, copy, partial) ==
    [st |-> "error", parser |-> parser, kind |-> kind, line |-> line_num,
     chrom |-> chrom, copy |-> copy, partial |-> partial]

\* Skipping blank lines only.
IsSkippedBlankOnly(line) == line = <<>>

\* if not line or line.startswith('#'): continue
IsSkipped(line) == line = <<>> \/ line[1] = "#"

RECURSIVE ParseKaryotypeFrom(_, _, _)

\* length = int(parts[1]); copy = int(parts[2]); add_chromosome_copy(chrom, copy, length)
KaryotypeRecord(file, line_num, karyotype, chrom, length, copy) ==
    IF ~length.ok \/ ~copy.ok
    THEN ParseError("Karyotype", "integer", line_num, <<>>, 0, karyotype)
    ELSE ParseKaryotypeFrom(file, line_num + 1,
                            add_chromosome_copy(karyotype, chrom, copy.v, length.v))

\* if len(parts) < 3: raise
KaryotypeParts(file, line_num, karyotype, parts) ==
    IF Len(parts) < 3
    THEN ParseError("Karyotype", "columns", line_num, <<>>, 0, karyotype)
    ELSE KaryotypeRecord(file, line_num, karyotype, parts[1],
                         ParseInt(parts[2], 10), ParseInt(parts[3], 10))

\* One stripped line of the karyotype file.
KaryotypeLine(file, line_num, karyotype, line) ==
    IF IsSkipped(line) THEN ParseKaryotypeFrom(file, line_num + 1, karyotype)
    ELSE KaryotypeParts(file, line_num, karyotype, Split(line, "\t"))

\* parse_karyotype: the loop from line line_num on.
ParseKaryotypeFrom(file, line_num, karyotype) ==
    IF line_num > Len(file) THEN [st |-> "ok", value |-> karyotype]
    ELSE KaryotypeLine(file, line_num, karyotype, StripChars(file[line_num], Whitespace))

parse_karyotype(file) == ParseKaryotypeFrom(file, 1, EmptyKaryotype)

RECURSIVE ParseSegmentsFrom(_, _, _)

\* chrom_copy = karyotype.get_copy(chrom, copy); if None: raise; else add_segment
SegmentRecord(file, line_num, karyotype, segment) ==
    IF ~HasCopy(karyotype, segment.chrom, segment.copy)
    THEN ParseError("Segments", "not found", line_num, segment.chrom, segment.copy,
                    karyotype)
    ELSE ParseSegmentsFrom(file, line_num + 1, add_segment(karyotype, segment))

\* copy = int(parts[1]); start = int(parts[2]); end = int(parts[3])
SegmentFields(file, line_num, karyotype, chrom, copy, start, end, origin) ==
    IF ~copy.ok \/ ~start.ok \/ ~end.ok
    THEN ParseError("Segments", "integer", line_num, <<>>, 0, karyotype)
    ELSE SegmentRecord(file, line_num, karyotype,
                       Segment(chrom, copy.v, start.v, end.v, origin))

\* if len(parts) < 5: raise
SegmentParts(file, line_num, karyotype, parts) ==
    IF Len(parts) < 5
    THEN ParseError("Segments", "columns", line_num, <<>>, 0, karyotype)
    ELSE SegmentFields(file, line_num, karyotype, parts[1], ParseInt(parts[2], 10),
                       ParseInt(parts[3], 10), ParseInt(parts[4], 10), parts[5])

\* One stripped line of the segments file.
SegmentLine(file, line_num, karyotype, line) ==
    IF IsSkipped(line) THEN ParseSegmentsFrom(file, line_num + 1, karyotype)
    ELSE SegmentParts(file, line_num, karyotype, Split(line, "\t"))

\* parse_segments: the loop from line line_num on, then the sort of every copy.
ParseSegmentsFrom(file, line_num, karyotype) ==
    IF line_num > Len(file) THEN [st |-> "ok", value |-> SortAllSegments(karyotype)]
    ELSE SegmentLine(file, line_num, karyotype, StripChars(file[line_num], Whitespace))

parse_segments(file, karyotype) == ParseSegmentsFrom(file, 1, karyotype)

RECURSIVE ParseOriginsFrom(_, _, _)

\* color = parse_color(color_str), its ValueError raised again with the line number;
\* origins[name] = Origin(name, color, label)
OriginRecord(file, line_num, origins, name, color, label) ==
    IF color.st # "ok"
    THEN ParseError("Origins", "color", line_num, <<>>, 0, origins)
    ELSE ParseOriginsFrom(file, line_num + 1,
                          SetOrigin(origins, Origin(name, color.v, label)))

\* if len(parts) < 3: raise
OriginParts(file, line_num, origins, parts) ==
    IF Len(parts) < 3
    THEN ParseError("Origins", "columns", line_num, <<>>, 0, origins)
    ELSE OriginRecord(file, line_num, origins, parts[1], parse_color(parts[2]), parts[3])

\* One stripped line of the origins file.
OriginLine(file, line_num, origins, line) ==
    IF IsSkipped(line) THEN ParseOriginsFrom(file, line_num + 1, origins)
    ELSE OriginParts(file, line_num, origins, Split(line, "\t"))

\* parse_origins: the loop from line line_num on, then the 'unknown' entry.
ParseOriginsFrom(file, line_num, origins) ==
    IF line_num > Len(file)
    THEN [st |-> "ok",
          value |-> IF HasOrigin(origins, UnknownName) THEN origins
                    ELSE Append(origins, UnknownOrigin)]
    ELSE OriginLine(file, line_num, origins, StripChars(file[line_num], Whitespace))

parse_origins(file) == ParseOriginsFrom(file, 1, <<>>)

\* The segments whose origin is no key of origins, in the order of the nested loops.
MissingOriginSegments(karyotype, origins) ==
    SelectSeq(AllSegments(karyotype), LAMBDA seg : ~HasOrigin(origins, seg.origin))

\* f"Segment origin '{segment.origin}' for {segment.chrom} copy {segment.copy} ..."
ValidationMessage(seg) == [origin |-> seg.origin, chrom |-> seg.chrom, copy |-> seg.copy]

FirstMessageOnly(offending) ==
    IF offending = <<>> THEN <<>> ELSE <<ValidationMessage(offending[1])>>

AllMessages(offending) == [i \in 1..Len(offending) |-> ValidationMessage(offending[i])]

\* validate_data returning at the first segment whose origin is missing.
validate_data_first_only(karyotype, origins) ==
    FirstMessageOnly(MissingOriginSegments(karyotype, origins))

\* validate_data: one message per segment whose origin is not a key of origins.  A
\* message keeps the origin, chromosome and copy its text states.
validate_data(karyotype, origins) == AllMessages(MissingOriginSegments(karyotype, origins))

\* ------------------------------------------------ renderer on its own

\* Copy lengths, segment end points and segments per copy the drawing loop is run on.
GeomLengths == {40, 100}

MaxGeomSegs == 2

GeomPoints(L) == {0, 1, L \div 2, L - 2, L - 1, L}

GeomSegments(L) ==
    { Segment(<<"a">>, 1, start, end, <<"p">>) :
        start \in GeomPoints(L), end \in GeomPoints(L) }

\* The karyotype parse_karyotype and parse_segments build from one copy of
\* chromosome a of length L, optionally a longer chromosome b, and the segments.
GeomKaryotype(L, withLonger, segs) ==
    LET k1 == add_chromosome_copy(EmptyKaryotype, <<"a">>, 1, L)
        k2 == IF withLonger THEN add_chromosome_copy(k1, <<"b">>, 1, 2 * L) ELSE k1
    IN SortAllSegments(AddSegments(k2, segs))

\* Segment lines of the file, in file order: origins p and q alternate.
GeomSegmentLists(L) ==
    LET proper == { seg \in GeomSegments(L) : seg.start < seg.end }
    IN UNION { { [i \in 1..n |-> [l[i] EXCEPT !.origin = IF i % 2 = 1 THEN <<"p">> ELSE <<"q">>]] :
                   l \in [1..n -> proper] } : n \in 0..MaxGeomSegs }

InitGeom ==
    /\ \E L \in GeomLengths, withLonger \in BOOLEAN :
          \E segs \in GeomSegmentLists(L) :
             gKaryo = GeomKaryotype(L, withLonger, segs)
    /\ gOrigins = generate_origin_colors(gKaryo)
    /\ gPatches = Pending
    /\ ColorIdle /\ ScaleIdle /\ PaletteIdle /\ ParserIdle /\ MainIdle /\ LayoutIdle

\* ChromoMapRenderer(gKaryo, gOrigins).render(...): its drawing loop.
RenderDrawing ==
    /\ gPatches = Pending
    /\ gPatches' = [st |-> "drawn", patches |-> RenderPatches(gKaryo, gOrigins, "none")]
    /\ UNCHANGED <<gKaryo, gOrigins>>
    /\ UNCHANGED <<colorVars, scaleVars, paletteVars, parserVars, mainVars, layoutVars>>

NextGeom == RenderDrawing

SpecGeom == InitGeom /\ [][NextGeom]_vars

\* The horizontal extent of a patch; a rectangle of negative width extends to the
\* left of its x.
Lo(p) == IF p.w >= 0 THEN p.x ELSE p.x + p.w

Hi(p) == IF p.w >= 0 THEN p.x + p.w ELSE p.x

\* matplotlib draws patches by ascending zorder and, within one zorder, in the
\* order they were added: patch j is painted over patch i.
PaintedOver(ps, i, j) ==
    ps[j].zorder > ps[i].zorder \/ (ps[j].zorder = ps[i].zorder /\ j > i)

SameBar(p, q) == p.chrom = q.chrom /\ p.copy = q.copy

\* Every point of [a, b) lies under a patch of the same bar painted over patch i.
Hidden(ps, i, a, b) ==
    LET above == { j \in 1..Len(ps) : PaintedOver(ps, i, j) /\ SameBar(ps[i], ps[j]) }
        cuts == {a} \cup { Lo(ps[j]) : j \in above } \cup { Hi(ps[j]) : j \in above }
    IN \A e \in { c \in cuts : a <= c /\ c < b } :
          \E j \in above : Lo(ps[j]) <= e /\ e < Hi(ps[j])

\* The patches filled with a segment's colour.
Coloured(ps) == { i \in 1..Len(ps) : ps[i].role \in {"fill", "cap"} }

SegmentOf(k, p) ==
    LET chrom == k.chromosomes[ChromIndex(k, p.chrom)]
    IN chrom.copies[CopyIndex(chrom, p.copy)].segments[p.seg]

CopyOf(k, p) ==
    LET chrom == k.chromosomes[ChromIndex(k, p.chrom)]
    IN chrom.copies[CopyIndex(chrom, p.copy)]

\* The patches drawn for the same segment as patch i.
OwnPatches(ps, i) == { j \in 1..Len(ps) : SameBar(ps[i], ps[j]) /\ ps[j].seg = ps[i].seg }

\* Patch i is the segment's visible left (right) end and that end is rounded: no
\* patch of the segment's own drawing is painted over it there.
RoundedLeftEnd(ps, i) ==
    /\ ps[i].kind = "round_box"
    /\ \A j \in OwnPatches(ps, i) \cap Coloured(ps) : Lo(ps[i]) <= Lo(ps[j])
    /\ ~\E j \in OwnPatches(ps, i) :
           PaintedOver(ps, i, j) /\ Lo(ps[j]) <= Lo(ps[i]) /\ Lo(ps[i]) < Hi(ps[j])

RoundedRightEnd(ps, i) ==
    /\ ps[i].kind \in {"round_box", "wedge"}
    /\ \A j \in OwnPatches(ps, i) \cap Coloured(ps) : Hi(ps[j]) <= Hi(ps[i])
    /\ ~\E j \in OwnPatches(ps, i) :
           PaintedOver(ps, i, j) /\ Lo(ps[j]) < Hi(ps[i]) /\ Hi(ps[i]) <= Hi(ps[j])

\* C8: the shape drawn for a segment follows from is_start and is_end alone: both
\* give one full capsule, is_start only a rounded left and a flat right end, is_end
\* only a flat left and a rounded right end, neither a rectangle.
C8_ShapeFollowsFlags ==
    gPatches # Pending =>
        \A i \in Coloured(gPatches.patches) :
            LET ps == gPatches.patches
                seg == SegmentOf(gKaryo, ps[i])
                copy == CopyOf(gKaryo, ps[i])
                mine == OwnPatches(ps, i) \cap Coloured(ps)
            IN /\ (\E j \in mine : RoundedLeftEnd(ps, j)) <=> IsStart(seg)
               /\ (\E j \in mine : RoundedRightEnd(ps, j)) <=> IsEnd(seg, copy)
               /\ (IsStart(seg) /\ IsEnd(seg, copy)) => Cardinality(mine) = 1

\* C9: the area filled with a segment's colour lies within
\* [left_margin + start * scale, left_margin + end * scale]: whatever a coloured
\* patch extends beyond it is hidden under patches painted over it.
C9_FillWithinSegment ==
    gPatches # Pending =>
        \A i \in Coloured(gPatches.patches) :
            LET ps == gPatches.patches
                seg == SegmentOf(gKaryo, ps[i])
                max_bp == KaryotypeMaxLength(gKaryo)
                x_start == InchUnits(LeftMargin, max_bp) + BpUnits(seg.start, max_bp)
                x_end == InchUnits(LeftMargin, max_bp) + BpUnits(seg.end, max_bp)
            IN /\ Lo(ps[i]) < x_start => Hidden(ps, i, Lo(ps[i]), x_start)
               /\ Hi(ps[i]) > x_end => Hidden(ps, i, x_end, Hi(ps[i]))

\* ------------------------------------------- generate_origin_colors on its own

\* Origin names the segments are drawn from, in the order their lines may appear in
\* the segments file.
OriginUniverse ==
    << <<"s","p","_","b">>,
       <<"s","p","_","a">>,
       <<"z">>,
       <<"B">>,
       <<"a","b">>,
       <<"a","_","b">>,
       <<"s","p">>,
       <<"a">>,
       <<"A">>,
       <<"1">>,
       <<"b">>,
       <<"u","n","k","n","o","w","n">> >>

\* The greatest number of segment lines.
MaxPaletteOrigins == 11

\* The names of the universe at the chosen positions, in file order or reversed.
PaletteNames(chosen, reversed) ==
    LET picked == SelectSeq(OriginUniverse,
                            LAMBDA name : \E i \in chosen : OriginUniverse[i] = name)
    IN IF reversed THEN [i \in 1..Len(picked) |-> picked[Len(picked) + 1 - i]] ELSE picked

\* One copy of chromosome a with one segment per name, loaded as parse_segments does.
PaletteKaryotype(names) ==
    SortAllSegments(
        AddSegments(add_chromosome_copy(EmptyKaryotype, <<"a">>, 1, 100),
                    [i \in 1..Len(names) |-> Segment(<<"a">>, 1, i - 1, i, names[i])]))

InitPalette ==
    /\ \E chosen \in SUBSET (1..Len(OriginUniverse)), reversed \in BOOLEAN :
          /\ Cardinality(chosen) <= MaxPaletteOrigins
          /\ palKaryo = PaletteKaryotype(PaletteNames(chosen, reversed))
    /\ palOut = Pending
    /\ ColorIdle /\ ScaleIdle /\ GeomIdle /\ ParserIdle /\ MainIdle /\ LayoutIdle

\* The call generate_origin_colors(palKaryo).
GenerateOriginColors ==
    /\ palOut = Pending
    /\ palOut' = [st |-> "ok", origins |-> generate_origin_colors(palKaryo)]
    /\ UNCHANGED palKaryo
    /\ UNCHANGED <<colorVars, scaleVars, geomVars, parserVars, mainVars, layoutVars>>

NextPalette == GenerateOriginColors

SpecPalette == InitPalette /\ [][NextPalette]_vars

\* The origin names of the karyotype's segments other than 'unknown'.
NamedOrigins(k) ==
    { AllSegments(k)[i].origin : i \in 1..Len(AllSegments(k)) } \ {UnknownName}

RECURSIVE TabJoin(_)
TabJoin(fields) ==
    IF Len(fields) = 0 THEN <<>>
    ELSE IF Len(fields) = 1 THEN fields[1]
    ELSE fields[1] \o <<"\t">> \o TabJoin(Tail(fields))

\* Lines of a karyotype file: two records, a comment, a comment after a space, a
\* blank line of one space, a line of two columns, a line whose third column is
\* empty, a length that is no integer, and a line of four columns.
KaryotypeLines ==
    { TabJoin(<< <<"a">>, <<"9">>, <<"1">> >>),
      TabJoin(<< <<"b">>, <<"7">>, <<"1">> >>),
      <<"#","c">>,
      <<" ","#","c">>,
      <<" ">>,
      TabJoin(<< <<"a">>, <<"9">> >>),
      TabJoin(<< <<"a">>, <<"9">>, <<>> >>),
      TabJoin(<< <<"a">>, <<"x">>, <<"1">> >>),
      TabJoin(<< <<"a">>, <<"9">>, <<"1">>, <<"z">> >>) }

\* Lines of a segments file: two records, a comment, an empty line, a line of four
\* columns, a start that is no integer, a chromosome and a copy the karyotype does
\* not have, and a line of six columns.
SegmentLines ==
    { TabJoin(<< <<"a">>, <<"1">>, <<"0">>, <<"4">>, <<"p">> >>),
      TabJoin(<< <<"a">>, <<"1">>, <<"4">>, <<"9">>, <<"q">> >>),
      <<"#","c">>,
      <<>>,
      TabJoin(<< <<"a">>, <<"1">>, <<"0">>, <<"4">> >>),
      TabJoin(<< <<"a">>, <<"1">>, <<"x">>, <<"4">>, <<"p">> >>),
      TabJoin(<< <<"c">>, <<"1">>, <<"0">>, <<"4">>, <<"p">> >>),
      TabJoin(<< <<"a">>, <<"2">>, <<"0">>, <<"4">>, <<"p">> >>),
      TabJoin(<< <<"a">>, <<"1">>, <<"0">>, <<"4">>, <<"p">>, <<"z">> >>) }

\* Lines of an origins file: two records, a comment, an empty line, a line of two
\* columns, a colour parse_color rejects, and a line of four columns.
OriginLines ==
    { TabJoin(<< <<"p">>, <<"r","e","d">>, <<"P">> >>),
      TabJoin(<< <<"q">>, <<"#","a","b","c">>, <<"Q">> >>),
      <<"#","c">>,
      <<>>,
      TabJoin(<< <<"p">>, <<"r","e","d">> >>),
      TabJoin(<< <<"p">>, <<"n","o","p","e">>, <<"P">> >>),
      TabJoin(<< <<"p">>, <<"r","e","d">>, <<"P">>, <<"z">> >>) }

\* The greatest number of lines of a file handed to a parser on its own.
MaxParserLines == 2

\* Every file of at most n lines drawn from lines.
FilesOf(lines, n) == UNION { [1..m -> lines] : m \in 0..n }

ParserLines(parser) ==
    CASE parser = "karyotype" -> KaryotypeLines
      [] parser = "segments"  -> SegmentLines
      [] parser = "origins"   -> OriginLines

\* The karyotype parse_segments is given: chromosome a, copy 1, 9 bp.
ParserKaryotype == add_chromosome_copy(EmptyKaryotype, <<"a">>, 1, 9)

\* The call of the parser on the file.
RunParserOn(parser, file, karyotype) ==
    CASE parser = "karyotype" -> parse_karyotype(file)
      [] parser = "segments"  -> parse_segments(file, karyotype)
      [] parser = "origins"   -> parse_origins(file)

InitParse ==
    /\ pParser \in {"karyotype", "segments", "origins"}
    /\ pFile \in FilesOf(ParserLines(pParser), MaxParserLines)
    /\ pKaryo = IF pParser = "segments" THEN ParserKaryotype ELSE <<>>
    /\ pResult = Pending
    /\ ColorIdle /\ ScaleIdle /\ GeomIdle /\ PaletteIdle /\ MainIdle /\ LayoutIdle

RunParser ==
    /\ pResult = Pending
    /\ pResult' = RunParserOn(pParser, pFile, pKaryo)
    /\ UNCHANGED <<pParser, pFile, pKaryo>>
    /\ UNCHANGED <<colorVars, scaleVars, geomVars, paletteVars, mainVars, layoutVars>>

NextParse == RunParser

SpecParse == InitParse /\ [][NextParse]_vars

\* The expected number of columns, and the columns that hold integers.
ExpectedColumns(parser) == IF parser = "segments" THEN 5 ELSE 3

IntegerColumns(parser) ==
    CASE parser = "karyotype" -> {2, 3}
      [] parser = "segments"  -> {2, 3, 4}
      [] parser = "origins"   -> {}

\* The line with its surrounding white space removed, and its columns.
Stripped(line) == StripChars(line, Whitespace)

Columns(line) == Split(Stripped(line), "\t")

\* Neither blank nor a comment.
Considered(line) == Stripped(line) # <<>> /\ Stripped(line)[1] # "#"

BadInteger(parser, line) ==
    \E i \in IntegerColumns(parser) :
        i <= Len(Columns(line)) /\ ~ParseInt(Columns(line)[i], 10).ok

WrongCount(parser, line) == Len(Columns(line)) # ExpectedColumns(parser)

TooFewColumns(parser, line) == Len(Columns(line)) < ExpectedColumns(parser)

\* The number of the first line satisfying P, or 0.
FirstLine(file, P(_)) ==
    IF \E n \in 1..Len(file) : P(file[n])
    THEN CHOOSE n \in 1..Len(file) : P(file[n]) /\ \A m \in 1..(n - 1) : ~P(file[m])
    ELSE 0

\* What the parser has registered once the lines before line n are read.
RegisteredBefore(parser, file, n, karyotype) ==
    RunParserOn(parser, SubSeq(file, 1, n - 1), karyotype).value

\* What a failed parser had registered, in the form the parser returns it.
Finished(parser, partial) ==
    CASE parser = "karyotype" -> partial
      [] parser = "segments"  -> SortAllSegments(partial)
      [] parser = "origins"   -> IF HasOrigin(partial, UnknownName) THEN partial
                                 ELSE Append(partial, UnknownOrigin)

AcceptedColor(color) ==
    /\ Len(color) = 7
    /\ color[1] = "#"
    /\ \A i \in 2..7 : Occurs(HexUpper, color[i]) \/ Occurs(HexLower, color[i])

\* The karyotype files of the runs: one copy, two copies of one chromosome after a
\* comment, two chromosomes, and a line of two columns.
MainKaryotypeFiles ==
    { << TabJoin(<< <<"a">>, <<"9">>, <<"1">> >>) >>,
      << <<"#","c">>,
         TabJoin(<< <<"a">>, <<"9">>, <<"1">> >>),
         TabJoin(<< <<"a">>, <<"9">>, <<"2">> >>) >>,
      << TabJoin(<< <<"a">>, <<"9">>, <<"1">> >>),
         TabJoin(<< <<"b">>, <<"7">>, <<"1">> >>) >>,
      << TabJoin(<< <<"a">>, <<"9">> >>) >> }

\* Lines of the segments file of a run: those given to the parser on its own, a
\* segment that overlaps both records, and a segment whose origin is 'unknown'.
MainSegmentLines ==
    SegmentLines
      \cup { TabJoin(<< <<"a">>, <<"1">>, <<"2">>, <<"6">>, <<"p">> >>),
              TabJoin(<< <<"a">>, <<"1">>, <<"4">>, <<"9">>, UnknownName >>) }

\* The greatest number of lines of the segments file of a run.
MaxSegmentLines == 2

\* The origins files of the runs: both origins, one origin, no line, a colour
\* parse_color rejects, a colour it lets through unparsed, and a line of two columns.
MainOriginFiles ==
    { << TabJoin(<< <<"p">>, <<"r","e","d">>, <<"P">> >>),
         TabJoin(<< <<"q">>, <<"#","a","b","c">>, <<"Q">> >>) >>,
      << TabJoin(<< <<"p">>, <<"r","e","d">>, <<"P">> >>) >>,
      << >>,
      << TabJoin(<< <<"p">>, <<"n","o","p","e">>, <<"P">> >>) >>,
      << TabJoin(<< <<"p">>, <<"#","+","1","2">>, <<"P">> >>),
         TabJoin(<< <<"q">>, <<"b","l","u","e">>, <<"Q">> >>) >>,
      << TabJoin(<< <<"p">>, <<"r","e","d">> >>) >> }

ColorsFile(lines) == [st |-> "file", lines |-> lines]

\* main is entered with its arguments: click has checked that the files exist.
Init ==
    /\ karFile \in MainKaryotypeFiles
    /\ segFile \in FilesOf(MainSegmentLines, MaxSegmentLines)
    /\ colors \in {NoFile} \cup {ColorsFile(f) : f \in MainOriginFiles}
    /\ pc = "start"
    /\ karyo = <<>> /\ origin_dict = <<>> /\ errors = <<>> /\ stderr = <<>>
    /\ steps = <<>> /\ figure = "none" /\ outFile = "absent" /\ exitStatus = Running
    /\ ColorIdle /\ ScaleIdle /\ GeomIdle /\ PaletteIdle /\ ParserIdle /\ LayoutIdle

\* What the text of a ValueError states.
Message(err) ==
    [parser |-> err.parser, kind |-> err.kind, line |-> err.line,
     chrom |-> err.chrom, copy |-> err.copy]

\* An error of the renderer.
RenderError(kind) ==
    [parser |-> "render", kind |-> kind, line |-> 0, chrom |-> <<>>, copy |-> 0]

\* except Exception as e: click.echo(f"Error: {e}", err=True); sys.exit(1)
Fail(message) ==
    /\ stderr' = Append(stderr, [head |-> "Error", error |-> message])
    /\ exitStatus' = 1
    /\ pc' = "exited"

\* The outcome r of a parser: loaded names the step reached when it returned.
Returned(r, loaded) ==
    IF r.st = "ok"
    THEN /\ pc' = loaded
         /\ UNCHANGED <<stderr, exitStatus>>
    ELSE Fail(Message(r))

\* karyo = parse_karyotype(karyotype)
KaryotypeParsed(r) ==
    /\ Returned(r, "karyotype loaded")
    /\ karyo' = IF r.st = "ok" THEN r.value ELSE karyo

ParseKaryotype ==
    /\ pc = "start"
    /\ steps' = Append(steps, "parse_karyotype")
    /\ KaryotypeParsed(parse_karyotype(karFile))
    /\ UNCHANGED <<karFile, segFile, colors, origin_dict, errors, figure, outFile>>
    /\ UNCHANGED <<colorVars, scaleVars, geomVars, paletteVars, parserVars, layoutVars>>

\* parse_segments(segments, karyo): karyo is changed in place, also when a later
\* line fails.
SegmentsParsed(r) ==
    /\ Returned(r, "segments loaded")
    /\ karyo' = IF r.st = "ok" THEN r.value ELSE r.partial

ParseSegments ==
    /\ pc = "karyotype loaded"
    /\ steps' = Append(steps, "parse_segments")
    /\ SegmentsParsed(parse_segments(segFile, karyo))
    /\ UNCHANGED <<karFile, segFile, colors, origin_dict, errors, figure, outFile>>
    /\ UNCHANGED <<colorVars, scaleVars, geomVars, paletteVars, parserVars, layoutVars>>

\* if colors is not None: origin_dict = parse_origins(colors)
OriginsParsed(r) ==
    /\ Returned(r, "origins loaded")
    /\ origin_dict' = IF r.st = "ok" THEN r.value ELSE origin_dict

LoadOrigins ==
    /\ pc = "segments loaded"
    /\ colors # NoFile
    /\ steps' = Append(steps, "parse_origins")
    /\ OriginsParsed(parse_origins(colors.lines))
    /\ UNCHANGED <<karFile, segFile, colors, karyo, errors, figure, outFile>>
    /\ UNCHANGED <<colorVars, scaleVars, geomVars, paletteVars, parserVars, layoutVars>>

\* ValidateData letting the run go on after printing the messages.
ValidateDataKeepsGoing ==
    /\ pc = "origins loaded"
    /\ steps' = Append(steps, "validate_data")
    /\ errors' = validate_data(karyo, origin_dict)
    /\ stderr' = IF errors' = <<>> THEN stderr
                 ELSE stderr \o <<[head |-> "Validation errors:"]>>
                             \o [i \in 1..Len(errors') |-> [head |-> "-", error |-> errors'[i]]]
    /\ pc' = "ready to render"
    /\ UNCHANGED <<karFile, segFile, colors, karyo, origin_dict, figure, outFile, exitStatus>>
    /\ UNCHANGED <<colorVars, scaleVars, geomVars, paletteVars, parserVars, layoutVars>>

\* errors = validate_data(karyo, origin_dict); if errors: echo each; sys.exit(1)
\* (SystemExit is no Exception, so the except clause lets it through.)
ValidateData ==
    /\ pc = "origins loaded"
    /\ steps' = Append(steps, "validate_data")
    /\ errors' = validate_data(karyo, origin_dict)
    /\ IF errors' = <<>>
       THEN /\ pc' = "ready to render"
            /\ UNCHANGED <<stderr, exitStatus>>
       ELSE /\ stderr' = stderr \o <<[head |-> "Validation errors:"]>>
                                \o [i \in 1..Len(errors') |->
                                       [head |-> "-", error |-> errors'[i]]]
            /\ exitStatus' = 1
            /\ pc' = "exited"
    /\ UNCHANGED <<karFile, segFile, colors, karyo, origin_dict, figure, outFile>>
    /\ UNCHANGED <<colorVars, scaleVars, geomVars, paletteVars, parserVars, layoutVars>>

\* else: origin_dict = generate_origin_colors(karyo)
GenerateOrigins ==
    /\ pc = "segments loaded"
    /\ colors = NoFile
    /\ steps' = Append(steps, "generate_origin_colors")
    /\ origin_dict' = generate_origin_colors(karyo)
    /\ pc' = "ready to render"
    /\ UNCHANGED <<karFile, segFile, colors, karyo, errors, stderr, figure, outFile,
                   exitStatus>>
    /\ UNCHANGED <<colorVars, scaleVars, geomVars, paletteVars, parserVars, layoutVars>>

\* Every patch has a face colour its constructor accepts.
Drawn(patches) ==
    IF \A i \in 1..Len(patches) : AcceptedColor(patches[i].face)
    THEN /\ pc' = "drawn"
         /\ UNCHANGED <<stderr, exitStatus>>
    ELSE Fail(RenderError("color"))

\* renderer.render up to plt.tight_layout(): the figure is created and the patches
\* are added; a patch whose colour is rejected raises, with the figure left open.
Render ==
    /\ pc = "ready to render"
    /\ steps' = Append(steps, "render")
    /\ figure' = "open"
    /\ \E sort_by \in {"none", "name", "length"} :
          Drawn(RenderPatches(karyo, origin_dict, sort_by))
    /\ UNCHANGED <<karFile, segFile, colors, karyo, origin_dict, errors, outFile>>
    /\ UNCHANGED <<colorVars, scaleVars, geomVars, paletteVars, parserVars, layoutVars>>

\* plt.savefig(...); plt.close(fig).  savefig writes the file or raises (a directory
\* that does not exist, a full disk); when it raises plt.close is not reached.
Save ==
    /\ pc = "drawn"
    /\ steps' = Append(steps, "save")
    /\ \E written \in BOOLEAN :
          IF written
          THEN /\ outFile' = "written"
               /\ figure' = "closed"
               /\ pc' = "saved"
               /\ UNCHANGED <<stderr, exitStatus>>
          ELSE /\ Fail(RenderError("save"))
               /\ UNCHANGED <<outFile, figure>>
    /\ UNCHANGED <<karFile, segFile, colors, karyo, origin_dict, errors>>
    /\ UNCHANGED <<colorVars, scaleVars, geomVars, paletteVars, parserVars, layoutVars>>

\* click.echo(f"Done! Output saved to {out}"); main returns and the process exits 0.
Done ==
    /\ pc = "saved"
    /\ exitStatus' = 0
    /\ pc' = "exited"
    /\ UNCHANGED <<karFile, segFile, colors, karyo, origin_dict, errors, stderr, steps,
                   figure, outFile>>
    /\ UNCHANGED <<colorVars, scaleVars, geomVars, paletteVars, parserVars, layoutVars>>

Next ==
    \/ ParseKaryotype
    \/ ParseSegments
    \/ LoadOrigins
    \/ ValidateData
    \/ GenerateOrigins
    \/ Render
    \/ Save
    \/ Done

Spec == Init /\ [][Next]_vars

\* The karyotype has the copy of the chromosome.
Contains(k, chrom, copy) ==
    \E i \in 1..Len(k.chromosomes) :
        /\ k.chromosomes[i].name = chrom
        /\ \E j \in 1..Len(k.chromosomes[i].copies) : k.chromosomes[i].copies[j].copy = copy

\* A segments line with its five columns and its three integers.
WellFormedSegment(line) ==
    /\ Considered(line)
    /\ ~TooFewColumns("segments", line)
    /\ ~BadInteger("segments", line)

\* A well-formed segments line naming a (chrom, copy) the karyotype does not contain.
NamesMissingCopy(k, line) ==
    /\ WellFormedSegment(line)
    /\ ~Contains(k, Columns(line)[1], ParseInt(Columns(line)[2], 10).v)

\* What the run prints when parse_segments finds line n naming a missing copy.
NotFoundEcho(n) ==
    [head |-> "Error",
     error |-> [parser |-> "Segments", kind |-> "not found", line |-> n,
                chrom |-> Columns(segFile[n])[1],
                copy |-> ParseInt(Columns(segFile[n])[2], 10).v]]

SegmentsRead == \E i \in 1..Len(steps) : steps[i] = "parse_segments"

Rendered == \E i \in 1..Len(steps) : steps[i] = "render"

\* C1 as stated: whenever some line of the segments file names a copy the karyotype
\* does not contain, parse_segments fails at the first such line with 'not found'
\* naming the chromosome, the copy and the line, and the run exits non-zero without
\* rendering.
C1_NotFoundAtFirstMissing ==
    SegmentsRead =>
        LET n == FirstLine(segFile, LAMBDA l : NamesMissingCopy(karyo, l))
        IN n # 0 => /\ stderr = <<NotFoundEcho(n)>>
                    /\ exitStatus = 1
                    /\ ~Rendered /\ figure = "none" /\ outFile = "absent"

\* C1: whenever some well-formed line of the segments file names a copy the
\* karyotype does not contain, the run exits non-zero without rendering; and when
\* every line before the first such line is blank, a comment or well-formed,
\* parse_segments fails at that line with 'not found' naming the chromosome, the
\* copy and the 1-based line number.
C1_NotFoundUnlessEarlierMalformed ==
    SegmentsRead =>
        LET n == FirstLine(segFile, LAMBDA l : NamesMissingCopy(karyo, l))
        IN n # 0 =>
              /\ exitStatus = 1
              /\ ~Rendered /\ figure = "none" /\ outFile = "absent"
              /\ (\A m \in 1..(n - 1) :
                      Considered(segFile[m]) => WellFormedSegment(segFile[m]))
                     => stderr = <<NotFoundEcho(n)>>

\* parse_segments has failed with 'not found' on line 2 of a file whose line 1 is a
\* well-formed record.
C1_Witness ==
    /\ SegmentsRead
    /\ Len(segFile) = 2
    /\ WellFormedSegment(segFile[1])
    /\ NamesMissingCopy(karyo, segFile[2])
    /\ stderr = <<NotFoundEcho(2)>>
    /\ exitStatus = 1

\* The places (chromosome, copy, segment) of the segments whose origin is no key of
\* the origins mapping.
OffendingPlaces(k, origins) ==
    UNION { UNION { { <<i, j, s>> :
                        s \in { t \in 1..Len(k.chromosomes[i].copies[j].segments) :
                                  \A o \in 1..Len(origins) :
                                      origins[o].name
                                        # k.chromosomes[i].copies[j].segments[t].origin } } :
                    j \in 1..Len(k.chromosomes[i].copies) } :
            i \in 1..Len(k.chromosomes) }

SegmentAt(k, place) == k.chromosomes[place[1]].copies[place[2]].segments[place[3]]

Validated == \E i \in 1..Len(steps) : steps[i] = "validate_data"

\* C2: validate_data returns exactly one message per segment whose origin is no key
\* of the origins mapping, each naming that segment's origin, chromosome and copy,
\* and the empty list exactly when every origin is a key; when the list is not
\* empty main prints every message and exits non-zero.
C2_OneMessagePerOffendingSegment ==
    Validated =>
        LET places == OffendingPlaces(karyo, origin_dict)
        IN /\ Len(errors) = Cardinality(places)
           /\ \A p \in places :
                 Cardinality({i \in 1..Len(errors) :
                                 /\ errors[i].origin = SegmentAt(karyo, p).origin
                                 /\ errors[i].chrom = SegmentAt(karyo, p).chrom
                                 /\ errors[i].copy = SegmentAt(karyo, p).copy})
                   = Cardinality({q \in places :
                                     /\ SegmentAt(karyo, q).origin = SegmentAt(karyo, p).origin
                                     /\ SegmentAt(karyo, q).chrom = SegmentAt(karyo, p).chrom
                                     /\ SegmentAt(karyo, q).copy = SegmentAt(karyo, p).copy})
           /\ (errors = <<>>) <=> (places = {})
           /\ errors # <<>> =>
                 /\ exitStatus = 1
                 /\ Len(stderr) = Len(errors) + 1
                 /\ \A i \in 1..Len(errors) : stderr[i + 1] = [head |-> "-", error |-> errors[i]]

\* Validation has found two segments with an origin that is no key, and the run has
\* printed both messages and exited non-zero.
C2_Witness ==
    /\ Validated
    /\ Len(errors) = 2
    /\ Len(stderr) = 3
    /\ exitStatus = 1

\* The steps of a run, in order, with and without an origins file.
StepOrder ==
    IF colors = NoFile
    THEN <<"parse_karyotype", "parse_segments", "generate_origin_colors", "render", "save">>
    ELSE <<"parse_karyotype", "parse_segments", "parse_origins", "validate_data",
           "render", "save">>

\* Whether the steps performed so far have all succeeded, judged from the inputs.
StepsSucceeded ==
    /\ Len(steps) >= 1 => parse_karyotype(karFile).st = "ok"
    /\ Len(steps) >= 2 => parse_segments(segFile, parse_karyotype(karFile).value).st = "ok"
    /\ (Len(steps) >= 3 /\ colors # NoFile) => parse_origins(colors.lines).st = "ok"
    /\ (Len(steps) >= 4 /\ colors # NoFile) => OffendingPlaces(karyo, origin_dict) = {}
    /\ Rendered => \A i \in 1..Len(karyo.chromosomes) :
                     \A j \in 1..Len(karyo.chromosomes[i].copies) :
                       \A s \in 1..Len(karyo.chromosomes[i].copies[j].segments) :
                         AcceptedColor(SegmentColor(origin_dict,
                                          karyo.chromosomes[i].copies[j].segments[s].origin))
    /\ steps = StepOrder => outFile = "written"

\* C3: the steps of a run happen in the order parse karyotype, parse segments, load
\* or generate origins, validate (when an origins file is given), render, save; the
\* output file is written only when every earlier step succeeded; a run in which a
\* step fails ends with exit status 1 and no output file; a run in which all steps
\* succeed ends with exit status 0 after the file is saved.
C3_StepsInOrder ==
    /\ Len(steps) <= Len(StepOrder)
    /\ steps = SubSeq(StepOrder, 1, Len(steps))
    /\ outFile = "written" => steps = StepOrder /\ StepsSucceeded /\ stderr = <<>>
    /\ ~StepsSucceeded => exitStatus = 1 /\ outFile = "absent" /\ pc = "exited"
    /\ exitStatus = 0 => outFile = "written" /\ StepsSucceeded /\ pc = "exited"
    /\ (pc = "exited" /\ StepsSucceeded) => exitStatus = 0
    /\ exitStatus \in {Running, 0, 1}

\* A run given an origins file has performed all six steps and exited with status 0.
C3_Witness ==
    /\ colors # NoFile
    /\ Len(steps) = 6
    /\ outFile = "written"
    /\ exitStatus = 0

\* render has ended: it returned after plt.close, or an exception left it.
RenderEnded == Rendered /\ pc \in {"saved", "exited"}

\* C13 as stated: in every call of render in which the figure has been created, the
\* figure is closed before render ends, both when the file is saved and when a
\* drawing or saving step fails after the figure was created.
C13_FigureClosedWhenRenderEnds ==
    RenderEnded => figure = "closed"

\* parse_segments has returned without an error.
Loaded ==
    /\ SegmentsRead
    /\ pc = "exited" => Len(steps) > 2

\* The segments of the copy are in ascending order of start.
AscendingStarts(segs) ==
    \A i \in 1..(Len(segs) - 1) : segs[i].start <= segs[i + 1].start

\* No segment of the copy begins before the one before it has ended.
Disjoint(segs) ==
    \A i \in 1..(Len(segs) - 1) : segs[i].end <= segs[i + 1].start

\* C15 as stated: after every successful load the segments held by each chromosome
\* copy are in ascending order of start and no two segments of the same copy
\* overlap, whatever the order and content of the lines of the segments file.
C15_SortedAndDisjoint ==
    Loaded =>
        \A i \in 1..Len(karyo.chromosomes) :
            \A j \in 1..Len(karyo.chromosomes[i].copies) :
                /\ AscendingStarts(karyo.chromosomes[i].copies[j].segments)
                /\ Disjoint(karyo.chromosomes[i].copies[j].segments)

\* The run is at the render step or past it.
ReachedRender == pc = "ready to render" \/ Rendered

\* The name is a key of the mapping.
IsKey(origins, name) == \E o \in 1..Len(origins) : origins[o].name = name

\* C16: in every run of main that reaches the render step, every segment's origin
\* name is a key of the origins mapping passed to the renderer, and the mapping
\* contains the key 'unknown'.
C16_OriginsCoverSegments ==
    ReachedRender =>
        /\ \A i \in 1..Len(karyo.chromosomes) :
              \A j \in 1..Len(karyo.chromosomes[i].copies) :
                \A s \in 1..Len(karyo.chromosomes[i].copies[j].segments) :
                    IsKey(origin_dict, karyo.chromosomes[i].copies[j].segments[s].origin)
        /\ IsKey(origin_dict, UnknownName)

\* A run without an origins file has reached render with a segment of origin p and
\* a segment of origin 'unknown'.
C16_Witness ==
    /\ Rendered
    /\ colors = NoFile
    /\ \E i \in 1..Len(karyo.chromosomes) :
          \E j \in 1..Len(karyo.chromosomes[i].copies) :
            /\ \E s \in 1..Len(karyo.chromosomes[i].copies[j].segments) :
                  karyo.chromosomes[i].copies[j].segments[s].origin = UnknownName
            /\ \E s \in 1..Len(karyo.chromosomes[i].copies[j].segments) :
                  karyo.chromosomes[i].copies[j].segments[s].origin = <<"p">>

\* --------------------------------------------------- the renderer's layout

\* Lines of a karyotype file 'chrom, length, copy': three chromosomes whose names
\* sort B, a, ab; copies 1 and 2; lengths that tie, a length of 0 and a negative
\* length; a later line for the same copy replaces the earlier one.
LayoutLines ==
    { TabJoin(<< <<"a">>, <<"9">>, <<"1">> >>),
      TabJoin(<< <<"a">>, <<"4">>, <<"2">> >>),
      TabJoin(<< <<"a">>, <<"0">>, <<"1">> >>),
      TabJoin(<< <<"B">>, <<"9">>, <<"1">> >>),
      TabJoin(<< <<"B">>, <<"9">>, <<"2">> >>),
      TabJoin(<< <<"a","b">>, <<"4">>, <<"1">> >>),
      TabJoin(<< <<"a","b">>, <<"-","3">>, <<"1">> >>) }

\* The greatest number of lines of the karyotype file that is laid out.
MaxLayoutLines == 3

InitLayout ==
    /\ layFile \in FilesOf(LayoutLines, MaxLayoutLines)
    /\ layOut = Pending
    /\ ColorIdle /\ ScaleIdle /\ GeomIdle /\ PaletteIdle /\ ParserIdle /\ MainIdle

\* ChromoMapRenderer(karyo, origins) and render(sort_by=sort_by) up to the end of the
\* drawing loop: the order of the chromosomes, the figure height, max_bp and the
\* patches added.
Laid(k, sort_by) ==
    [st |-> "drawn",
     sort_by |-> sort_by,
     order |-> get_ordered_chromosomes(k, sort_by),
     fig_height |-> calculate_fig_height(k, sort_by),
     max_bp |-> KaryotypeMaxLength(k),
     patches |-> RenderPatches(k, generate_origin_colors(k), sort_by)]

\* karyo = parse_karyotype(karyotype); renderer.render(..., sort_by=sort)
RenderLayout ==
    /\ layOut = Pending
    /\ \E sort_by \in {"none", "name", "length"} :
          layOut' = Laid(parse_karyotype(layFile).value, sort_by)
    /\ UNCHANGED layFile
    /\ UNCHANGED <<colorVars, scaleVars, geomVars, paletteVars, parserVars, mainVars>>

NextLayout == RenderLayout

SpecLayout == InitLayout /\ [][NextLayout]_vars

\* The records of the file: chromosome, length and copy of every line.
RecordOf(columns) ==
    [chrom |-> columns[1],
     length |-> ParseInt(columns[2], 10).v,
     copy |-> ParseInt(columns[3], 10).v]

RECURSIVE RecordsOf(_)
RecordsOf(file) ==
    IF file = <<>> THEN <<>>
    ELSE <<RecordOf(Columns(Head(file)))>> \o RecordsOf(Tail(file))

Records == RecordsOf(layFile)

NamesOf(recs) == { recs[n].chrom : n \in 1..Len(recs) }

\* The line on which the chromosome first appears.
FirstAppearance(recs, name) ==
    CHOOSE n \in 1..Len(recs) :
        recs[n].chrom = name /\ \A m \in 1..(n - 1) : recs[m].chrom # name

\* The lines that register a copy no later line registers again.
LastWord(recs) ==
    { n \in 1..Len(recs) :
        \A m \in (n + 1)..Len(recs) :
            recs[m].chrom # recs[n].chrom \/ recs[m].copy # recs[n].copy }

\* The greatest length among the copies of the chromosome.
LongestCopy(recs, name) ==
    CHOOSE l \in { recs[n].length : n \in { m \in LastWord(recs) : recs[m].chrom = name } } :
        \A n \in LastWord(recs) : recs[n].chrom = name => recs[n].length <= l

\* The bars of the figure, top to bottom: the outline capsule of every copy, in the
\* order render drew them.
BarsOf(patches) == SelectSeq(patches, LAMBDA p : p.role = "outline")

Bars == BarsOf(layOut.patches)

\* The place of the chromosome in the order get_ordered_chromosomes returned.
PlaceOf(order, name) == CHOOSE i \in 1..Len(order) : order[i] = name

\* The returned order holds every name of the file once, in the order of the mode.
OrderedBy(recs, order, sort_by) ==
    /\ { order[i] : i \in 1..Len(order) } = NamesOf(recs)
    /\ Len(order) = Cardinality(NamesOf(recs))
    /\ sort_by = "none" =>
          \A i \in 1..(Len(order) - 1) :
              FirstAppearance(recs, order[i]) < FirstAppearance(recs, order[i + 1])
    /\ sort_by = "name" =>
          \A i \in 1..(Len(order) - 1) : TextLess(order[i], order[i + 1])
    /\ sort_by = "length" =>
          \A i \in 1..(Len(order) - 1) :
              LongestCopy(recs, order[i]) >= LongestCopy(recs, order[i + 1])

\* Every registered copy has one bar; the bars follow the order of the chromosomes
\* and, within a chromosome, ascend in copy number.
CopiesAscend(recs, order, bars) ==
    /\ { <<bars[b].chrom, bars[b].copy>> : b \in 1..Len(bars) }
         = { <<recs[n].chrom, recs[n].copy>> : n \in 1..Len(recs) }
    /\ Len(bars) = Cardinality(LastWord(recs))
    /\ \A b \in 1..(Len(bars) - 1) :
          IF bars[b].chrom = bars[b + 1].chrom
          THEN bars[b].copy < bars[b + 1].copy
          ELSE PlaceOf(order, bars[b].chrom) < PlaceOf(order, bars[b + 1].chrom)

\* C11: get_ordered_chromosomes returns each chromosome name exactly once: in order
\* of first appearance in the karyotype file for 'none', in ascending lexicographic
\* order for 'name', and in non-increasing order of the chromosome's maximum copy
\* length for 'length'; within each chromosome render draws the copies in ascending
\* copy index (every registered copy once, the chromosomes in the returned order).
C11_OrderOfChromosomesAndCopies ==
    layOut # Pending =>
        LET recs == Records
            bars == Bars
        IN /\ OrderedBy(recs, layOut.order, layOut.sort_by)
           /\ CopiesAscend(recs, layOut.order, bars)

\* Sorted by length, a file that registers copy 2 of chromosome a before its copy 1
\* and a longer chromosome B after it: B comes first, and a's copies are drawn 1, 2.
C11_Witness ==
    /\ layOut # Pending
    /\ layOut.sort_by = "length"
    /\ Len(layFile) = 3
    /\ Records[1].chrom = <<"a">> /\ Records[1].copy = 2
    /\ Records[2].chrom = <<"B">>
    /\ Records[3].chrom = <<"a">> /\ Records[3].copy = 1
    /\ layOut.order = << <<"B">>, <<"a">> >>
    /\ Len(Bars) = 3
    /\ Bars[2].copy = 1 /\ Bars[3].copy = 2

\* The greatest copy length over all chromosomes, 0 for a karyotype without one.
GreatestLength(recs) ==
    IF recs = <<>> THEN 0
    ELSE CHOOSE l \in { recs[n].length : n \in LastWord(recs) } :
             \A n \in LastWord(recs) : recs[n].length <= l

\* The length the file gives the copy a bar was drawn for.
BarBp(recs, bar) ==
    recs[CHOOSE n \in LastWord(recs) :
             recs[n].chrom = bar.chrom /\ recs[n].copy = bar.copy].length

\* Lengths on the canvas, in the unit of a patch's w: plot_width and one inch.
PlotWidthUnits == InchUnits(PlotWidth, layOut.max_bp)

InchInUnits == InchUnits(100, layOut.max_bp)

\* The bar of bp base pairs is bp * scale long, for scale = plot_width / max_bp.
ScaledByPlotWidth(bar, bp, max_bp) == bar.w * max_bp = bp * PlotWidthUnits

\* The bar of bp base pairs is bp * scale long, for scale = 1.
ScaledByOne(bar, bp) == bar.w = bp * InchInUnits

HeightOf(chromosomes, copies) ==
    IF chromosomes = 0 THEN TopMargin + BottomMargin
    ELSE TopMargin + BottomMargin
         + ChromHeight * copies
         + SameChromSpacing * (copies - chromosomes)
         + DiffChromSpacing * (chromosomes - 1)

\* C14: for every karyotype and every sort mode, _calculate_fig_height returns
\* top_margin + bottom_margin + chrom_height * (total number of copies)
\* + same_chrom_spacing * (sum over chromosomes of (copies - 1))
\* + diff_chrom_spacing * (number of chromosomes - 1), and top_margin +
\* bottom_margin for a karyotype with no chromosome.
C14_FigHeightFormula ==
    layOut # Pending =>
        LET recs == Records
        IN layOut.fig_height
             = HeightOf(Cardinality(NamesOf(recs)), Cardinality(LastWord(recs)))

\* Two chromosomes with three copies in all: 0.5 + 1.0 + 3 * 0.4 + 0.15 + 0.5 inches.
C14_Witness ==
    /\ layOut # Pending
    /\ Cardinality(NamesOf(Records)) = 2
    /\ Cardinality(LastWord(Records)) = 3
    /\ layOut.fig_height = 335

\* The top of a bar: its capsule is chrom_height tall.
Top(bar) == bar.y + ChromHeight

\* The gap between a bar and the next one below it.
GapBelow(upper, lower) == upper.y - Top(lower)

====
